---- MODULE Spec2Model ----
(***************************************************************************)
(* Model of PlaylistSerializer (cherrymusic/api/serializers.py): the       *)
(* create / update handlers, sync_tracks and set_playback_position, run    *)
(* against a relational store.  Tables are sets of rows; every ORM         *)
(* statement is an operator from a database value to a result              *)
(* [db, err, val]; `with transaction.atomic()` restores the tables (not    *)
(* the id sequences) when the block raises.                                *)
(***************************************************************************)
EXTENDS Integers, Sequences, FiniteSets, TLC

VARIABLES
    db,      \* the committed database: tables and id sequences
    last,    \* the call being answered: handler, input, outcome
    ncalls,  \* number of calls made so far
    tx,      \* per worker: the call it runs, statement by statement
    commits  \* the workers that committed, in commit order

vars == <<db, last, ncalls, tx, commits>>

----------------------------------------------------------------------------
\* Bounds of the model.
MaxLen == 2      \* longest submitted track list
MaxCalls == 2    \* calls per run

\* Python's None, and a present value, for nullable fields.
None == <<>>
Some(x) == <<x>>

\* The "new playlist" sentinel of update() / create().
NewId == -1

----------------------------------------------------------------------------
\* Results of ORM statements and handlers.
Ok(d, v) == [db |-> d, err |-> "ok", val |-> v]
Raise(d, e) == [db |-> d, err |-> e, val |-> None]

\* The not-found errors of the ORM's get().
NotFoundErrors == {"User.DoesNotExist", "Playlist.DoesNotExist", "File.DoesNotExist"}

\* Leaving `with transaction.atomic()` by an exception: the tables are as
\* they were on entry; ids drawn from the sequences stay drawn.
Rollback(before, r) == Raise([before EXCEPT !.seq = r.db.seq], r.err)

\* Mutant of Atomic: the block commits what it wrote before it raised.
AtomicNoRollback(before, r) == r

\* `with transaction.atomic(): body`
Atomic(before, r) == IF r.err = "ok" THEN r ELSE Rollback(before, r)

----------------------------------------------------------------------------
\* User.objects.get(id=...)
UserGet(d, id) ==
    LET found == {u \in d.users : u.id = id}
    IN  IF found = {} THEN Raise(d, "User.DoesNotExist")
        ELSE Ok(d, CHOOSE u \in found : TRUE)

\* Mutant of FileGet: get_or_create, a missing File is inserted.
FileGetOrCreate(d, id) ==
    LET found == {f \in d.files : f.id = id}
    IN  IF found = {} THEN Ok([d EXCEPT !.files = @ \cup {[id |-> id]}], [id |-> id])
        ELSE Ok(d, CHOOSE f \in found : TRUE)

\* File.objects.get(id=...)
FileGet(d, id) ==
    LET found == {f \in d.files : f.id = id}
    IN  IF found = {} THEN Raise(d, "File.DoesNotExist")
        ELSE Ok(d, CHOOSE f \in found : TRUE)

\* Mutant of YoutubeGetOrCreate: update_or_create, the descriptor's
\* attributes overwrite the entry found.
YoutubeUpdateOrCreate(d, youtube_data) ==
    LET found == {y \in d.youtubes : y.video_id = youtube_data.youtube_id}
        old == CHOOSE y \in found : TRUE
        row == [id |-> IF found = {} THEN d.seq.youtube ELSE old.id,
                video_id |-> youtube_data.youtube_id,
                title |-> youtube_data.title,
                views |-> youtube_data.views,
                duration |-> youtube_data.duration]
    IN  IF found = {}
        THEN Ok([d EXCEPT !.youtubes = @ \cup {row}, !.seq.youtube = @ + 1], row)
        ELSE Ok([d EXCEPT !.youtubes = (@ \ found) \cup {row}], row)

\* The INSERT of get_or_create: youtube_data has lost its 'youtube_id' key
\* to the pop(), the rest are the defaults.
YoutubeCreate(d, youtube_data) ==
    LET row == [id |-> d.seq.youtube,
                video_id |-> youtube_data.youtube_id,
                title |-> youtube_data.title,
                views |-> youtube_data.views,
                duration |-> youtube_data.duration]
    IN  Ok([d EXCEPT !.youtubes = @ \cup {row}, !.seq.youtube = @ + 1], row)

\* Mutant of YoutubeGetOrCreate: every descriptor inserts its own entry.
YoutubeAlwaysCreate(d, youtube_data) == YoutubeCreate(d, youtube_data)

\* Youtube.objects.get_or_create(video_id=youtube_id, defaults=youtube_data)[0]
YoutubeGetOrCreate(d, youtube_data) ==
    LET found == {y \in d.youtubes : y.video_id = youtube_data.youtube_id}
    IN  IF found = {} THEN YoutubeCreate(d, youtube_data)
        ELSE IF Cardinality(found) = 1 THEN Ok(d, CHOOSE y \in found : TRUE)
        ELSE Raise(d, "Youtube.MultipleObjectsReturned")

\* Mutant of TrackCreate: the row takes the smallest identity not in use.
TrackCreateReuseId(d, playlist, file, youtube, track_data) ==
    LET used == {t.id : t \in d.tracks}
        free == CHOOSE i \in 1..d.seq.track :
                    i \notin used /\ \A j \in 1..(i - 1) : j \in used
        row == [id |-> free,
                playlist |-> playlist.id,
                order |-> track_data.order,
                type |-> track_data.type,
                file |-> IF file = None THEN None ELSE Some(file[1].id),
                youtube |-> IF youtube = None THEN None ELSE Some(youtube[1].id)]
    IN  Ok([d EXCEPT !.tracks = @ \cup {row}, !.seq.track = @ + 1], row)

\* Track.objects.create(playlist=playlist, file=file, youtube=youtube, **track_data)
\* file and youtube are None or Some(row); the row stores the foreign keys.
TrackCreate(d, playlist, file, youtube, track_data) ==
    LET row == [id |-> d.seq.track,
                playlist |-> playlist.id,
                order |-> track_data.order,
                type |-> track_data.type,
                file |-> IF file = None THEN None ELSE Some(file[1].id),
                youtube |-> IF youtube = None THEN None ELSE Some(youtube[1].id)]
    IN  Ok([d EXCEPT !.tracks = @ \cup {row}, !.seq.track = @ + 1], row)

\* Mutant of TrackDelete: the old tracks stay.
TrackDeleteNone(d, playlist) == Ok(d, None)

\* Mutant of TrackDelete: the delete has lost its filter.
TrackDeleteAll(d, playlist) == Ok([d EXCEPT !.tracks = {}], None)

\* Track.objects.filter(playlist=playlist).delete()
TrackDelete(d, playlist) ==
    Ok([d EXCEPT !.tracks = {t \in @ : t.playlist # playlist.id}], None)

\* Playlist.objects.filter(id=id).update(name=..., public=...)
PlaylistUpdate(d, id, name, public) ==
    Ok([d EXCEPT !.playlists =
            {IF pl.id = id THEN [pl EXCEPT !.name = name, !.public = public] ELSE pl
                : pl \in @}], None)

\* Playlist.objects.get(id=id)
PlaylistGet(d, id) ==
    LET found == {pl \in d.playlists : pl.id = id}
    IN  IF found = {} THEN Raise(d, "Playlist.DoesNotExist")
        ELSE Ok(d, CHOOSE pl \in found : TRUE)

\* Mutant of PlaylistCreate: the descriptor's id is not popped and becomes
\* the row's identity.
PlaylistCreateKeepId(d, name, owner, public) ==
    LET row == [id |-> NewId, name |-> name, owner |-> owner.id, public |-> public]
    IN  Ok([d EXCEPT !.playlists = @ \cup {row}], row)

\* Playlist.objects.create(**validated_data): name, owner, public are what is
\* left of validated_data after the pops.
PlaylistCreate(d, name, owner, public) ==
    LET row == [id |-> d.seq.playlist, name |-> name, owner |-> owner.id,
                public |-> public]
    IN  Ok([d EXCEPT !.playlists = @ \cup {row}, !.seq.playlist = @ + 1], row)

\* Mutant of PositionFilter: the lookup has lost its user.
PositionFilterAnyUser(d, user_id, playlist) ==
    {r \in d.positions : r.playlist = playlist.id}

\* The rows update_or_create looks up: user_id=user.id, playlist=playlist.
PositionFilter(d, user_id, playlist) ==
    {r \in d.positions : r.user_id = user_id /\ r.playlist = playlist.id}

\* The INSERT of update_or_create.
PositionCreate(d, user_id, playlist, defaults) ==
    LET row == [id |-> d.seq.position, user_id |-> user_id, playlist |-> playlist.id,
                playback_position |-> defaults.playback_position,
                active_track_idx |-> defaults.active_track_idx]
    IN  Ok([d EXCEPT !.positions = @ \cup {row}, !.seq.position = @ + 1], row)

\* The UPDATE of update_or_create: the defaults are set on the row found
\* and the row is saved under its primary key.
PositionSave(d, old, defaults) ==
    LET new == [old EXCEPT
                   !.playback_position = defaults.playback_position,
                   !.active_track_idx = defaults.active_track_idx]
    IN  Ok([d EXCEPT !.positions = {r \in @ : r.id # old.id} \cup {new}], new)

\* PlaylistPosition.objects.update_or_create(user_id=, playlist=, defaults=)
PositionUpdateOrCreate(d, user_id, playlist, defaults) ==
    LET found == PositionFilter(d, user_id, playlist)
    IN  IF found = {} THEN PositionCreate(d, user_id, playlist, defaults)
        ELSE IF Cardinality(found) = 1
        THEN PositionSave(d, CHOOSE r \in found : TRUE, defaults)
        ELSE Raise(d, "PlaylistPosition.MultipleObjectsReturned")

----------------------------------------------------------------------------
\* PlaylistSerializer.set_playback_position
set_playback_position(d, playlist, active_track_idx, playback_position, user) ==
    LET r == PositionUpdateOrCreate(d, user.id, playlist,
                [playback_position |-> playback_position,
                 active_track_idx |-> active_track_idx])
    IN  IF r.err = "ok" THEN Ok(r.db, None) ELSE r

\* Mutant of sync_track: the row keeps the order the descriptor carries.
sync_track_keep_order(d, playlist, idx, data) ==
    LET y == IF data.youtube # None
             THEN YoutubeGetOrCreate(d, data.youtube[1])
             ELSE Ok(d, None)
        f == IF data.file # None
             THEN FileGet(y.db, data.file[1].id)
             ELSE Ok(y.db, None)
    IN  IF y.err # "ok" THEN y
        ELSE IF f.err # "ok" THEN f
        ELSE TrackCreate(f.db, playlist,
                         IF data.file # None THEN Some(f.val) ELSE None,
                         IF data.youtube # None THEN Some(y.val) ELSE None,
                         [order |-> data.order, type |-> data.type])

\* One pass of the body of the for loop of sync_tracks, for the descriptor
\* at idx (0-based, as enumerate counts).
sync_track(d, playlist, idx, data) ==
    LET track_data == [order |-> idx, type |-> data.type]
        youtube_data == data.youtube
        y == IF youtube_data # None
             THEN YoutubeGetOrCreate(d, youtube_data[1])
             ELSE Ok(d, None)
        youtube == IF youtube_data # None /\ y.err = "ok" THEN Some(y.val) ELSE None
        file_data == data.file
        f == IF file_data # None
             THEN FileGet(y.db, file_data[1].id)
             ELSE Ok(y.db, None)
        file == IF file_data # None /\ f.err = "ok" THEN Some(f.val) ELSE None
    IN  IF y.err # "ok" THEN y
        ELSE IF f.err # "ok" THEN f
        ELSE TrackCreate(f.db, playlist, file, youtube, track_data)

\* The for loop of sync_tracks from position idx on.
RECURSIVE sync_loop(_, _, _, _)
sync_loop(d, playlist, tracks_data, idx) ==
    IF idx >= Len(tracks_data) THEN Ok(d, None)
    ELSE LET r == sync_track(d, playlist, idx, tracks_data[idx + 1])
         IN  IF r.err # "ok" THEN r
             ELSE sync_loop(r.db, playlist, tracks_data, idx + 1)

\* PlaylistSerializer.sync_tracks
sync_tracks(d, playlist, tracks_data) ==
    Atomic(d, sync_loop(TrackDelete(d, playlist).db, playlist, tracks_data, 0))

\* Mutant of update_body: the descriptor's owner is written to the row too.
update_body_set_owner(d, id, user, validated_data) ==
    LET u == PlaylistUpdate(d, id, validated_data.name, validated_data.public)
        o == [u.db EXCEPT !.playlists =
                {IF pl.id = id THEN [pl EXCEPT !.owner = user.id] ELSE pl : pl \in @}]
        g == PlaylistGet(o, id)
        p == set_playback_position(g.db, g.val, validated_data.get_playback_position,
                                   validated_data.get_active_track_idx, user)
        s == sync_tracks(p.db, g.val, validated_data.tracks)
    IN  IF g.err # "ok" THEN g
        ELSE IF p.err # "ok" THEN p
        ELSE IF s.err # "ok" THEN s
        ELSE Ok(s.db, g.val)

\* The transaction of update(): lines 253-262.
update_body(d, id, user, validated_data) ==
    LET u == PlaylistUpdate(d, id, validated_data.name, validated_data.public)
        g == PlaylistGet(u.db, id)
        playlist == g.val
        playback_position == validated_data.get_playback_position
        active_track_idx == validated_data.get_active_track_idx
        p == set_playback_position(g.db, playlist, playback_position,
                                   active_track_idx, user)
        s == sync_tracks(p.db, playlist, validated_data.tracks)
    IN  IF g.err # "ok" THEN g
        ELSE IF p.err # "ok" THEN p
        ELSE IF s.err # "ok" THEN s
        ELSE Ok(s.db, playlist)

\* Mutant of update: the owner is looked up after the transaction's writes.
update_user_late(d, instance, validated_data) ==
    LET r == update_body(d, validated_data.id, validated_data.owner, validated_data)
        user == UserGet(r.db, validated_data.owner.id)
    IN  IF r.err # "ok" THEN Rollback(d, r)
        ELSE IF user.err # "ok" THEN Rollback(d, Raise(r.db, user.err))
        ELSE r

\* Mutant of update: the target is the instance passed in.
update_by_instance(d, instance, validated_data) ==
    LET user == UserGet(d, validated_data.owner.id)
    IN  IF user.err # "ok" THEN user
        ELSE Atomic(d, update_body(d, instance.id, user.val, validated_data))

\* PlaylistSerializer.update
update(d, instance, validated_data) ==
    LET id == validated_data.id
        user == UserGet(d, validated_data.owner.id)
    IN  IF user.err # "ok" THEN user
        ELSE Atomic(d, update_body(d, id, user.val, validated_data))

\* The transaction of create(): lines 271-276.
create_body(d, user, validated_data) ==
    LET playback_position == validated_data.get_playback_position
        active_track_idx == validated_data.get_active_track_idx
        c == PlaylistCreate(d, validated_data.name, user, validated_data.public)
        playlist == c.val
        p == set_playback_position(c.db, playlist, active_track_idx,
                                   playback_position, user)
        s == sync_tracks(p.db, playlist, validated_data.tracks)
    IN  IF p.err # "ok" THEN p
        ELSE IF s.err # "ok" THEN s
        ELSE Ok(s.db, playlist)

\* PlaylistSerializer.create
create(d, validated_data) ==
    LET user == UserGet(d, validated_data.owner.id)
    IN  IF user.err # "ok" THEN user
        ELSE Atomic(d, create_body(d, user.val, validated_data))

----------------------------------------------------------------------------
\* Inputs.  Rows the handlers only read: one File, two users.
Files == {[id |-> 1]}
Users == {[id |-> 1], [id |-> 2]}

\* Identities a descriptor may name: file 2 and user 3 do not exist.
FileIds == {1, 2}
UserIds == {1, 2, 3}
ActiveTrackIdxs == {0, 1}
PlaybackPositions == {1, 2}

YoutubeDatas ==
    {[youtube_id |-> "abc", title |-> "t1", views |-> 1, duration |-> 10],
     [youtube_id |-> "abc", title |-> "t2", views |-> 2, duration |-> 20]}

\* Track descriptors as TrackSerializer validates them.  The submitted
\* order is never the index the descriptor gets in the lists below.
FileTrack(i) ==
    [order |-> 5, type |-> "file", file |-> Some([id |-> i]), youtube |-> None]
YoutubeTrack(y) ==
    [order |-> 3, type |-> "youtube", file |-> None, youtube |-> Some(y)]

\* Descriptors with exactly one backing source.
TrackDatas ==
    {FileTrack(i) : i \in FileIds} \cup {YoutubeTrack(y) : y \in YoutubeDatas}

\* Descriptors with no backing source, and with two.
MalformedTrackDatas ==
    {[order |-> 4, type |-> "file", file |-> None, youtube |-> None],
     [order |-> 4, type |-> "file", file |-> Some([id |-> 1]),
      youtube |-> Some(CHOOSE y \in YoutubeDatas : y.title = "t2")]}

\* Submitted track lists: every list of descriptors with one source, and
\* the malformed descriptors alone and behind a file track.
TrackLists ==
    UNION {[1..n -> TrackDatas] : n \in 0..MaxLen}
    \cup {<<m>> : m \in MalformedTrackDatas}
    \cup {<<FileTrack(1), m>> : m \in MalformedTrackDatas}

ValidatedData(id, name, owner, public, idx, pos, tracks) ==
    [id |-> id, name |-> name, owner |-> [id |-> owner], public |-> public,
     get_active_track_idx |-> idx, get_playback_position |-> pos,
     tracks |-> tracks]

\* Playlist descriptors with identity id: every track list under one header,
\* and every header over one track list.
ValidatedDatas(id) ==
    {ValidatedData(id, "n1", 1, TRUE, 0, 2, tracks) : tracks \in TrackLists}
    \cup {ValidatedData(id, name, 1, public, 0, 2, <<FileTrack(1)>>)
            : name \in {"n1", "n2"}, public \in BOOLEAN}
    \cup {ValidatedData(id, "n1", owner, TRUE, 0, 2, <<FileTrack(1)>>)
            : owner \in UserIds}
    \cup {ValidatedData(id, "n1", 1, TRUE, idx, pos, <<FileTrack(1)>>)
            : idx \in ActiveTrackIdxs, pos \in PlaybackPositions}

\* Descriptors whose identity is not the one of the instance they come with.
StrayDatas(id) ==
    {ValidatedData(id, "n2", owner, FALSE, 1, 2, <<YoutubeTrack(y)>>)
        : owner \in {2, 3}, y \in {CHOOSE y \in YoutubeDatas : y.title = "t1"}}

EmptyDB ==
    [playlists |-> {}, tracks |-> {}, youtubes |-> {}, positions |-> {},
     files |-> Files, users |-> Users,
     seq |-> [playlist |-> 1, track |-> 1, youtube |-> 1, position |-> 1]]

\* A database that already holds a playlist: the one create() leaves behind.
SeedData == ValidatedData(NewId, "n1", 1, TRUE, 0, 2, <<FileTrack(1)>>)
SeededDB == create(EmptyDB, SeedData).db

\* The persisted tables, without the id sequences.
Tables(d) == [d EXCEPT !.seq = 0]

\* No call is being answered.
NoCall == [op |-> "none", instance |-> None, data |-> None, err |-> "ok",
           val |-> None, before |-> None]

----------------------------------------------------------------------------
\* Workers.  Each runs one call at a time, every statement in autocommit
\* or inside the call's transaction.
Procs == {1, 2}

\* The tables the handlers write.
TableNames == {"playlists", "tracks", "youtubes", "positions"}

\* The uncommitted writes of a transaction: the identities of the committed
\* rows it deleted or replaced, the rows it inserted or put in their place,
\* and the rows <<table, id>> its UPDATEs and DELETEs matched: it holds their
\* row locks until it ends.
NoWrites == [gone |-> [T \in TableNames |-> {}], put |-> [T \in TableNames |-> {}],
             locked |-> {}]

\* What a statement of a transaction with writes w reads, under read
\* committed: the rows committed by now, under the transaction's own writes.
View(c, w) ==
    [T \in DOMAIN c |->
        IF T \in TableNames
        THEN {r \in c[T] : r.id \notin w.gone[T]} \cup w.put[T]
        ELSE c[T]]

\* The writes of the transaction once a statement that matched the rows
\* locks has turned its view into v.
Writes(c, w, v, locks) ==
    [gone |-> [T \in TableNames |-> w.gone[T] \cup {r.id : r \in c[T] \ v[T]}],
     put |-> [T \in TableNames |-> v[T] \ c[T]],
     locked |-> w.locked \cup locks]

\* A worker between calls.
Idle == [pc |-> "idle", op |-> "none", log |-> <<>>,
         data |-> None, instance |-> None, user |-> None,
         playlist |-> None, found |-> {}, idx |-> 0, youtube |-> None,
         file |-> None, w |-> NoWrites, err |-> "ok"]

\* The descriptors the workers submit for the playlist with identity id.
WorkerDatas(id) ==
    {ValidatedData(id, "n1", 1, TRUE, 0, 2, tracks) :
        tracks \in {<<>>}
                   \cup {<<FileTrack(1), YoutubeTrack(y)>> : y \in YoutubeDatas}
                   \cup {<<YoutubeTrack(y), FileTrack(2)>> : y \in YoutubeDatas}}
    \cup {ValidatedData(id, "n2", owner, FALSE, 1, 1, <<FileTrack(1)>>)
            : owner \in UserIds}

\* The descriptors the workers submit to create().
WorkerCreateDatas ==
    {ValidatedData(NewId, "n3", 2, TRUE, 1, 2, tracks) :
        tracks \in {<<FileTrack(1)>>} \cup {<<YoutubeTrack(y)>> : y \in YoutubeDatas}}

\* The <<active_track_idx, playback_position>> of the direct calls of
\* set_playback_position.
WorkerPositions == {<<0, 2>>, <<1, 1>>}

----------------------------------------------------------------------------
Init ==
    /\ db \in {EmptyDB, SeededDB}
    /\ last = NoCall
    /\ ncalls = 0
    /\ tx = [p \in Procs |-> Idle]
    /\ commits = <<>>

\* The handler has run on the committed database with result r.
Finish(op, instance, data, r) ==
    /\ db' = r.db
    /\ last' = [op |-> op, instance |-> instance, data |-> data,
                err |-> r.err, val |-> r.val, before |-> Some(db)]
    /\ ncalls' = ncalls + 1
    /\ UNCHANGED <<tx, commits>>

\* serializer.save() without an instance.
Create ==
    /\ last = NoCall
    /\ ncalls < MaxCalls
    /\ \E validated_data \in ValidatedDatas(NewId) :
          Finish("create", None, validated_data, create(db, validated_data))

\* serializer.save() with an instance: the playlist the view looked up.
\* The descriptor carries its own identity.
Update ==
    /\ last = NoCall
    /\ ncalls < MaxCalls
    /\ \E instance \in db.playlists :
       \E id \in {NewId} \cup 1..db.seq.playlist :
       \E validated_data \in
             IF id = instance.id THEN ValidatedDatas(id) ELSE StrayDatas(id) :
          Finish("update", Some(instance), validated_data,
                 update(db, instance, validated_data))

\* A direct call of the class method.
SetPlaybackPosition ==
    /\ last = NoCall
    /\ ncalls < MaxCalls
    /\ \E playlist \in db.playlists, user \in db.users :
       \E idx \in ActiveTrackIdxs, pos \in PlaybackPositions :
          Finish("set_playback_position", None,
                 [playlist |-> playlist, user |-> user,
                  active_track_idx |-> idx, playback_position |-> pos],
                 set_playback_position(db, playlist, idx, pos, user))

\* The caller repeats the update that has just succeeded, with the same
\* instance and the same descriptor.
Resave ==
    /\ last.op = "update"
    /\ last.err = "ok"
    /\ ncalls <= MaxCalls
    /\ Finish("resave", last.instance, last.data,
              update(db, last.instance[1], last.data))

\* The caller has its answer; the next call can come.
Return ==
    /\ last # NoCall
    /\ last' = NoCall
    /\ UNCHANGED <<db, ncalls, tx, commits>>

Next == Create \/ Update \/ SetPlaybackPosition \/ Resave \/ Return

\* Calls one at a time, each run to completion.
Spec == Init /\ [][Next]_vars

----------------------------------------------------------------------------
\* update(), create() and set_playback_position() run by concurrent
\* workers, one ORM statement per step.

\* Mutant of Statement: no transaction, every statement commits its writes
\* at once.
StatementAutocommit(p, r, locks, next) ==
    /\ \A q \in Procs \ {p} : locks \cap tx[q].w.locked = {}
    /\ db' = IF r.err = "ok" THEN r.db ELSE [db EXCEPT !.seq = r.db.seq]
    /\ tx' = [tx EXCEPT ![p] =
                IF r.err = "ok" THEN [next EXCEPT !.w = NoWrites]
                ELSE [@ EXCEPT !.pc = "done", !.err = r.err, !.w = NoWrites]]
    /\ UNCHANGED <<last, ncalls, commits>>

\* Worker p's statement has result r on p's view and matched the rows
\* locks for writing: p waits while another transaction holds one of them;
\* an exception ends the call and rolls the transaction back; otherwise p
\* goes on as record next.
Statement(p, r, locks, next) ==
    LET w == Writes(db, tx[p].w, r.db, locks)
    IN  /\ \A q \in Procs \ {p} : locks \cap tx[q].w.locked = {}
        /\ db' = [db EXCEPT !.seq = r.db.seq]
        /\ tx' = [tx EXCEPT ![p] =
                    IF r.err = "ok" THEN [next EXCEPT !.w = w]
                    ELSE [@ EXCEPT !.pc = "done", !.err = r.err, !.w = NoWrites]]
        /\ UNCHANGED <<last, ncalls, commits>>

\* p's view of the database.
ViewOf(p) == View(db, tx[p].w)

\* The unique keys of the rows of table T: the external identifier of a
\* Youtube entry, the (playlist, user) pair of a PlaylistPosition.
KeysOf(T, r) ==
    IF T = "youtubes" THEN {<<"youtubes.video_id", r.video_id>>}
    ELSE IF T = "positions"
         THEN {<<"positions.playlist_user", <<r.playlist, r.user_id>>>>}
         ELSE {}

\* The INSERT inside get_or_create / update_or_create of row r.val into
\* table T: p waits while another transaction holds an uncommitted row with
\* the same unique key; when a row with that key is there the database
\* raises IntegrityError, which the ORM catches: p goes on as record
\* conflict, to fetch that row; otherwise the row is inserted.
Insert(p, T, r, conflict, next) ==
    LET keys == KeysOf(T, r.val)
    IN  /\ \A q \in Procs \ {p} : keys \cap tx[q].w.locked = {}
        /\ IF \E o \in ViewOf(p)[T] : KeysOf(T, o) \cap keys # {}
           THEN /\ db' = [db EXCEPT !.seq = r.db.seq]
                /\ tx' = [tx EXCEPT ![p] = conflict]
                /\ UNCHANGED <<last, ncalls, commits>>
           ELSE Statement(p, r, keys, next)

\* Mutant of Flow: the tracks are replaced before the position is written.
FlowTracksFirst(t, done) ==
    CASE done = "playlist" -> "delete"
      [] done = "tracks" -> "position"
      [] done = "position" -> "commit"

\* The order of the calls inside the atomic blocks: once the playlist row
\* is there, set_playback_position, then sync_tracks, then the block ends.
\* A direct call of set_playback_position ends after its statement.
Flow(t, done) ==
    CASE done = "playlist" -> "position"
      [] done = "position" ->
            IF t.op = "set_playback_position" THEN "commit" ELSE "delete"
      [] done = "tracks" -> "commit"

\* A request reaches update() on worker p.
UpdateCall(p) ==
    /\ tx[p].pc = "idle"
    /\ \E instance \in db.playlists :
       \E validated_data \in WorkerDatas(instance.id) :
          tx' = [tx EXCEPT ![p] = [Idle EXCEPT !.pc = "user",
                                      !.op = "update",
                                      !.data = validated_data,
                                      !.instance = Some(instance)]]
    /\ UNCHANGED <<db, last, ncalls, commits>>

\* A request reaches create() on worker p.
CreateCall(p) ==
    /\ tx[p].pc = "idle"
    /\ \E validated_data \in WorkerCreateDatas :
          tx' = [tx EXCEPT ![p] = [Idle EXCEPT !.pc = "user",
                                      !.op = "create",
                                      !.data = validated_data]]
    /\ UNCHANGED <<db, last, ncalls, commits>>

\* Worker p calls set_playback_position directly, with a playlist and a
\* user it has read.
SetPositionCall(p) ==
    /\ tx[p].pc = "idle"
    /\ \E playlist \in db.playlists, user \in db.users :
       \E position \in WorkerPositions :
          tx' = [tx EXCEPT ![p] =
                    [Idle EXCEPT !.pc = "position",
                                 !.op = "set_playback_position",
                                 !.data = ValidatedData(playlist.id, playlist.name,
                                              user.id, playlist.public,
                                              position[1], position[2], <<>>),
                                 !.playlist = playlist,
                                 !.user = user]]
    /\ UNCHANGED <<db, last, ncalls, commits>>

\* lines 251, 269: User.objects.get, before the transaction.
GetUser(p) ==
    /\ tx[p].pc = "user"
    /\ LET r == UserGet(ViewOf(p), tx[p].data.owner.id)
       IN  Statement(p, r, {},
                [tx[p] EXCEPT !.pc = IF tx[p].op = "create" THEN "create"
                                     ELSE "update",
                              !.user = r.val])

\* lines 253-257: the transaction begins with the UPDATE of the playlist row.
UpdatePlaylist(p) ==
    /\ tx[p].pc = "update"
    /\ Statement(p, PlaylistUpdate(ViewOf(p), tx[p].data.id, tx[p].data.name,
                                   tx[p].data.public),
                 {<<"playlists", pl.id>> : pl \in
                     {pl \in ViewOf(p).playlists : pl.id = tx[p].data.id}},
                 [tx[p] EXCEPT !.pc = "get", !.log = Append(@, "playlist")])

\* line 258: Playlist.objects.get.
GetPlaylist(p) ==
    /\ tx[p].pc = "get"
    /\ LET r == PlaylistGet(ViewOf(p), tx[p].data.id)
       IN  Statement(p, r, {},
                [tx[p] EXCEPT !.pc = Flow(tx[p], "playlist"), !.playlist = r.val])

\* lines 271-272: the transaction begins with the INSERT of the playlist row.
CreatePlaylist(p) ==
    /\ tx[p].pc = "create"
    /\ LET r == PlaylistCreate(ViewOf(p), tx[p].data.name, tx[p].user,
                               tx[p].data.public)
       IN  Statement(p, r, {},
                [tx[p] EXCEPT !.pc = Flow(tx[p], "playlist"), !.playlist = r.val,
                              !.log = Append(@, "playlist")])

\* line 206: the lookup of update_or_create.
LookupPosition(p) ==
    /\ tx[p].pc = "position"
    /\ LET found == PositionFilter(ViewOf(p), tx[p].user.id, tx[p].playlist)
       IN  Statement(p,
                IF Cardinality(found) <= 1 THEN Ok(ViewOf(p), None)
                ELSE Raise(ViewOf(p), "PlaylistPosition.MultipleObjectsReturned"),
                {},
                [tx[p] EXCEPT !.pc = "position_write", !.found = found])

\* The arguments worker p's call passes to set_playback_position: update()
\* passes playback_position, active_track_idx (line 261), create()
\* active_track_idx, playback_position (line 275), as a direct caller does.
Passed(t) ==
    IF t.op = "update"
    THEN [active_track_idx |-> t.data.get_playback_position,
          playback_position |-> t.data.get_active_track_idx]
    ELSE [active_track_idx |-> t.data.get_active_track_idx,
          playback_position |-> t.data.get_playback_position]

\* line 206: the INSERT or UPDATE of update_or_create.
WritePosition(p) ==
    /\ tx[p].pc = "position_write"
    /\ LET next == [tx[p] EXCEPT !.pc = Flow(tx[p], "position"), !.found = {},
                                 !.log = Append(@, "position")]
       IN  IF tx[p].found = {}
           THEN Insert(p, "positions",
                    PositionCreate(ViewOf(p), tx[p].user.id, tx[p].playlist,
                                   Passed(tx[p])),
                    [tx[p] EXCEPT !.pc = "position"], next)
           ELSE Statement(p,
                    PositionSave(ViewOf(p), CHOOSE r \in tx[p].found : TRUE,
                                 Passed(tx[p])),
                    {<<"positions", r.id>> : r \in tx[p].found}, next)

\* The statement after the one for the descriptor at idx - 1.
AtTrack(t, idx) ==
    IF idx >= Len(t.data.tracks)
    THEN [t EXCEPT !.pc = Flow(t, "tracks"), !.idx = idx]
    ELSE [t EXCEPT !.pc = "youtube", !.idx = idx, !.youtube = None, !.file = None]

\* line 219: the DELETE of the playlist's tracks.
DeleteTracks(p) ==
    /\ tx[p].pc = "delete"
    /\ Statement(p, TrackDelete(ViewOf(p), tx[p].playlist),
                 {<<"tracks", t.id>> : t \in
                     {t \in ViewOf(p).tracks : t.playlist = tx[p].playlist.id}},
                 AtTrack([tx[p] EXCEPT !.log = Append(@, "tracks")], 0))

\* lines 228-234: the lookup of get_or_create, when the descriptor has a
\* youtube part.
LookupYoutube(p) ==
    /\ tx[p].pc = "youtube"
    /\ LET youtube_data == tx[p].data.tracks[tx[p].idx + 1].youtube
           found == IF youtube_data = None THEN {}
                    ELSE {y \in ViewOf(p).youtubes :
                             y.video_id = youtube_data[1].youtube_id}
       IN  Statement(p,
                IF Cardinality(found) <= 1 THEN Ok(ViewOf(p), None)
                ELSE Raise(ViewOf(p), "Youtube.MultipleObjectsReturned"),
                {},
                IF youtube_data = None THEN [tx[p] EXCEPT !.pc = "file"]
                ELSE IF found = {} THEN [tx[p] EXCEPT !.pc = "youtube_create"]
                ELSE [tx[p] EXCEPT !.pc = "file",
                                   !.youtube = Some(CHOOSE y \in found : TRUE)])

\* Mutant of CreateYoutube: when the entry is already there the track gets
\* the row the call has built, not the one stored.
CreateYoutubeStale(p) ==
    /\ tx[p].pc = "youtube_create"
    /\ LET r == YoutubeCreate(ViewOf(p), tx[p].data.tracks[tx[p].idx + 1].youtube[1])
       IN  Insert(p, "youtubes", r,
                  [tx[p] EXCEPT !.pc = "file", !.youtube = Some(r.val)],
                  [tx[p] EXCEPT !.pc = "file", !.youtube = Some(r.val)])

\* lines 231-234: the INSERT of get_or_create; when the entry is already
\* there get_or_create fetches it.
CreateYoutube(p) ==
    /\ tx[p].pc = "youtube_create"
    /\ LET r == YoutubeCreate(ViewOf(p), tx[p].data.tracks[tx[p].idx + 1].youtube[1])
       IN  Insert(p, "youtubes", r,
                  [tx[p] EXCEPT !.pc = "youtube"],
                  [tx[p] EXCEPT !.pc = "file", !.youtube = Some(r.val)])

\* lines 235-238: File.objects.get, when the descriptor has a file part.
GetFile(p) ==
    /\ tx[p].pc = "file"
    /\ LET file_data == tx[p].data.tracks[tx[p].idx + 1].file
           r == IF file_data = None THEN Ok(ViewOf(p), None)
                ELSE FileGet(ViewOf(p), file_data[1].id)
       IN  Statement(p, r, {},
                [tx[p] EXCEPT !.pc = "track",
                              !.file = IF file_data = None THEN None ELSE Some(r.val)])

\* lines 223, 240-245: the INSERT of the track.
CreateTrack(p) ==
    /\ tx[p].pc = "track"
    /\ Statement(p,
            TrackCreate(ViewOf(p), tx[p].playlist, tx[p].file, tx[p].youtube,
                        [order |-> tx[p].idx,
                         type |-> tx[p].data.tracks[tx[p].idx + 1].type]),
            {},
            AtTrack(tx[p], tx[p].idx + 1))

\* lines 263, 277: the atomic block is left, the transaction commits.
Commit(p) ==
    /\ tx[p].pc = "commit"
    /\ db' = ViewOf(p)
    /\ tx' = [tx EXCEPT ![p].pc = "done", ![p].w = NoWrites]
    /\ commits' = Append(commits, p)
    /\ UNCHANGED <<last, ncalls>>

NextWorkers ==
    \E p \in Procs :
        \/ UpdateCall(p) \/ CreateCall(p) \/ SetPositionCall(p)
        \/ GetUser(p) \/ UpdatePlaylist(p) \/ GetPlaylist(p) \/ CreatePlaylist(p)
        \/ LookupPosition(p) \/ WritePosition(p) \/ DeleteTracks(p)
        \/ LookupYoutube(p) \/ CreateYoutube(p) \/ GetFile(p)
        \/ CreateTrack(p) \/ Commit(p)

\* Concurrent calls, each save in its own read committed transaction.
SpecWorkers == Init /\ [][NextWorkers]_vars

----------------------------------------------------------------------------
\* Vocabulary of the properties.

\* The database the answered call started from.
Before == last.before[1]

\* The answered call was a save (create path or update path).
IsSave == last.op \in {"create", "update"}
Saved == IsSave /\ last.err = "ok"

\* The Track rows of the playlist with identity id.
TracksOf(d, id) == {t \in d.tracks : t.playlist = id}

\* Track row t is backed by what descriptor data names.
Backs(d, t, data) ==
    /\ IF data.file = None THEN t.file = None
       ELSE t.file = Some(data.file[1].id)
    /\ IF data.youtube = None THEN t.youtube = None
       ELSE /\ t.youtube # None
            /\ \E y \in d.youtubes :
                  y.id = t.youtube[1] /\ y.video_id = data.youtube[1].youtube_id

\* The descriptor names a File that the database does not hold.
Dangling(d, data) ==
    data.file # None /\ data.file[1].id \notin {f.id : f \in d.files}

----------------------------------------------------------------------------
\* C1: a save that fails at any step leaves the Playlist, Track,
\* PlaybackPosition (and Youtube, File) rows exactly as they were before the
\* call.
C1_Atomicity ==
    (IsSave /\ last.err # "ok") => Tables(db) = Tables(Before)

\* An update fails on the File of its second track, after the playlist row,
\* the position and a Youtube entry were written and the old tracks deleted.
C1_Witness ==
    /\ last.op = "update"
    /\ last.err = "File.DoesNotExist"
    /\ Len(last.data.tracks) = 2
    /\ last.data.tracks[1].youtube # None
    /\ Before.youtubes = {}
    /\ TracksOf(Before, last.data.id) # {}
    /\ \E r \in Before.positions : r.playlist = last.data.id

\* C2: after a successful save of N descriptors the playlist owns exactly N
\* Track rows, with orders exactly 0..N-1, the row of order i backed by the
\* source of the i-th descriptor, whatever order the descriptors carried.
C2_OrderPreservation ==
    Saved =>
        LET tracks_data == last.data.tracks
            rows == TracksOf(db, last.val.id)
        IN  /\ Cardinality(rows) = Len(tracks_data)
            /\ {t.order : t \in rows} = 0..(Len(tracks_data) - 1)
            /\ \A i \in 1..Len(tracks_data) :
                  \E t \in rows : t.order = i - 1 /\ Backs(db, t, tracks_data[i])

\* A successful save of two descriptors with different sources, neither
\* carrying its index as order, over a playlist that had a track.
C2_Witness ==
    /\ Saved
    /\ Len(last.data.tracks) = 2
    /\ last.data.tracks[1].file # None
    /\ last.data.tracks[2].youtube # None
    /\ \A i \in 1..2 : last.data.tracks[i].order # i - 1
    /\ TracksOf(Before, last.val.id) # {}

\* C3 (as claimed): after any successful save submitted with
\* active_track_idx = a and playback_position = p by owner u, the row of
\* (playlist, u) holds active_track_idx = a and playback_position = p.
C3_PositionValues ==
    Saved =>
        \E r \in db.positions :
            /\ r.playlist = last.val.id
            /\ r.user_id = last.data.owner.id
            /\ r.active_track_idx = last.data.get_active_track_idx
            /\ r.playback_position = last.data.get_playback_position

\* The track list and the position row of (playlist, owner) are the ones
\* descriptor data submitted.
Holds(d, data) ==
    LET rows == TracksOf(d, data.id)
    IN  /\ Cardinality(rows) = Len(data.tracks)
        /\ \A i \in 1..Len(data.tracks) :
              \E t \in rows : t.order = i - 1 /\ Backs(d, t, data.tracks[i])
        /\ \E r \in d.positions :
              /\ r.playlist = data.id
              /\ r.user_id = data.owner.id
              /\ r.active_track_idx = data.get_active_track_idx
              /\ r.playback_position = data.get_playback_position

\* C4 (as claimed): when two concurrent saves of one existing playlist have
\* both committed, its track list and playback position are exactly those
\* submitted by the save that committed second.
C4_LastWriterWins ==
    (/\ Len(commits) = 2
     /\ tx[commits[1]].op = "update" /\ tx[commits[2]].op = "update"
     /\ tx[commits[1]].data.id = tx[commits[2]].data.id)
        => Holds(db, tx[commits[2]].data)

\* C5: in every committed state the orders of each playlist's Track rows
\* are exactly 0..n-1 for its n rows.
C5_DenseOrder ==
    \A id \in {t.playlist : t \in db.tracks} :
        LET rows == TracksOf(db, id)
        IN  /\ {t.order : t \in rows} = 0..(Cardinality(rows) - 1)
            /\ \A t1, t2 \in rows : t1.order = t2.order => t1 = t2

\* A playlist that had tracks holds two tracks after a successful update.
C5_Witness ==
    /\ last.op = "update" /\ last.err = "ok"
    /\ Cardinality(TracksOf(db, last.data.id)) = 2
    /\ TracksOf(Before, last.data.id) # {}

\* C6 (as claimed): a save with a descriptor that has no backing source, or
\* two, fails with MalformedTrackError, and no Track row has zero or two
\* backing sources.
C6_MalformedRejected ==
    /\ (IsSave /\ \E i \in 1..Len(last.data.tracks) :
                     (last.data.tracks[i].file = None)
                         = (last.data.tracks[i].youtube = None))
          => last.err = "MalformedTrackError"
    /\ \A t \in db.tracks : (t.file = None) # (t.youtube = None)

\* The attributes of the first descriptor of tracks_data that names video_id.
FirstYoutubeData(tracks_data, video_id) ==
    LET at == {i \in 1..Len(tracks_data) :
                  /\ tracks_data[i].youtube # None
                  /\ tracks_data[i].youtube[1].youtube_id = video_id}
        first == CHOOSE i \in at : \A j \in at : i <= j
    IN  tracks_data[first].youtube[1]

\* C7: there is at most one Youtube entry per external identifier; an entry
\* is created only by a successful save, from the first descriptor naming
\* its identifier; once committed no call changes or removes it.
C7_ExternalDedup ==
    /\ \A y1, y2 \in db.youtubes : y1.video_id = y2.video_id => y1 = y2
    /\ last.op # "none" =>
          /\ Before.youtubes \subseteq db.youtubes
          /\ \A y \in db.youtubes \ Before.youtubes :
                /\ Saved
                /\ \E i \in 1..Len(last.data.tracks) :
                      /\ last.data.tracks[i].youtube # None
                      /\ last.data.tracks[i].youtube[1].youtube_id = y.video_id
                /\ LET data == FirstYoutubeData(last.data.tracks, y.video_id)
                   IN  /\ y.title = data.title
                       /\ y.views = data.views
                       /\ y.duration = data.duration

\* A successful save names an identifier whose committed entry has another
\* title than the descriptor.
C7_Witness ==
    /\ Saved
    /\ \E i \in 1..Len(last.data.tracks) : \E y \in Before.youtubes :
          /\ last.data.tracks[i].youtube # None
          /\ last.data.tracks[i].youtube[1].youtube_id = y.video_id
          /\ last.data.tracks[i].youtube[1].title # y.title

\* The (playlist id, user id, index, position) an answered call submitted.
Submitted ==
    IF last.op = "set_playback_position"
    THEN [playlist |-> last.data.playlist.id, user_id |-> last.data.user.id,
          active_track_idx |-> last.data.active_track_idx,
          playback_position |-> last.data.playback_position]
    ELSE [playlist |-> last.val.id, user_id |-> last.data.owner.id,
          active_track_idx |-> last.data.get_active_track_idx,
          playback_position |-> last.data.get_playback_position]

\* C8 (as claimed): there is at most one PlaybackPosition row per
\* (playlist, user), and after a successful save or set_playback_position
\* that row holds the values the call submitted.
C8_PositionUpsert ==
    /\ \A r1, r2 \in db.positions :
          (r1.playlist = r2.playlist /\ r1.user_id = r2.user_id) => r1 = r2
    /\ (last.op # "none" /\ last.err = "ok") =>
          \E r \in db.positions :
              /\ r.playlist = Submitted.playlist
              /\ r.user_id = Submitted.user_id
              /\ r.active_track_idx = Submitted.active_track_idx
              /\ r.playback_position = Submitted.playback_position

\* C9: a save with a file-backed descriptor whose File does not exist fails
\* with a not-found error at whatever index it stands, and no call changes
\* the File rows.
C9_DanglingFile ==
    /\ (IsSave /\ \E i \in 1..Len(last.data.tracks) :
                     Dangling(Before, last.data.tracks[i]))
          => (last.err \in NotFoundErrors /\ Tables(db) = Tables(Before))
    /\ db.files = Files

\* A save whose first descriptor names a missing File has failed on it.
C9_Witness ==
    /\ IsSave
    /\ Len(last.data.tracks) = 2
    /\ Dangling(Before, last.data.tracks[1])
    /\ last.err = "File.DoesNotExist"

\* C10: a successful create inserts exactly one Playlist row, with an
\* identity no playlist had and that is not the sentinel, with the
\* descriptor's name, owner and public, and returns it; the Track and
\* PlaybackPosition rows that existed are unchanged.
C10_CreatePath ==
    (last.op = "create" /\ last.err = "ok") =>
        LET playlist == last.val
        IN  /\ db.playlists = Before.playlists \cup {playlist}
            /\ playlist.id \notin {pl.id : pl \in Before.playlists}
            /\ playlist.id # NewId
            /\ playlist.name = last.data.name
            /\ playlist.owner = last.data.owner.id
            /\ playlist.public = last.data.public
            /\ Before.tracks = {t \in db.tracks : t.playlist # playlist.id}
            /\ Before.positions = {r \in db.positions : r.playlist # playlist.id}

\* A successful create into a database that held a playlist with a track
\* and a position, with a name and flag other than that playlist's.
C10_Witness ==
    /\ last.op = "create" /\ last.err = "ok"
    /\ Before.tracks # {} /\ Before.positions # {}
    /\ \E pl \in Before.playlists :
          pl.name # last.data.name /\ pl.public # last.data.public
    /\ Cardinality(db.playlists) = 2


\* C11: a successful update sets the playlist's name and public flag to the
\* submitted values and leaves its stored owner as it was, also when the
\* descriptor names another owner; no Playlist row is added or removed, and
\* no other Playlist row changes.
C11_UpdatePath ==
    (last.op = "update" /\ last.err = "ok") =>
        \E old \in Before.playlists :
            LET new == [old EXCEPT !.name = last.data.name,
                                   !.public = last.data.public]
            IN  /\ old.id = last.data.id
                /\ last.val = new
                /\ db.playlists = (Before.playlists \ {old}) \cup {new}
                /\ Cardinality(db.playlists) = Cardinality(Before.playlists)

\* A successful update by an owner other than the stored one, with another
\* name and flag than the stored ones.
C11_Witness ==
    /\ last.op = "update" /\ last.err = "ok"
    /\ \E old \in Before.playlists :
          /\ old.id = last.data.id
          /\ old.owner # last.data.owner.id
          /\ old.name # last.data.name
          /\ old.public # last.data.public

\* C12: a save whose owner does not exist fails with User.DoesNotExist and
\* has written nothing: the tables are unchanged and no identity was drawn
\* from a sequence, so no insert was tried before the lookup.
C12_OwnerFirst ==
    (IsSave /\ last.data.owner.id \notin {u.id : u \in Before.users})
        => (last.err = "User.DoesNotExist" /\ db = Before)

\* An update of an existing playlist, with a track to insert, by a user
\* that does not exist.
C12_Witness ==
    /\ last.op = "update"
    /\ last.err = "User.DoesNotExist"
    /\ last.data.id \in {pl.id : pl \in Before.playlists}
    /\ last.data.tracks # <<>>


\* What a reader sees of the tracks of playlist id: per track its order, its
\* type and its backing source (the File, or the Youtube entry and the
\* external identifier it stands for).
Observable(d, id) ==
    {[order |-> t.order, type |-> t.type, file |-> t.file, youtube |-> t.youtube,
      video_id |-> IF t.youtube = None THEN {}
                   ELSE {y.video_id : y \in {z \in d.youtubes : z.id = t.youtube[1]}}]
       : t \in TracksOf(d, id)}

\* C13: an update repeated with identical input right after it succeeded
\* succeeds again and leaves the same observable track sequence (per
\* position: order, type, backing source), with as many Track rows, none of
\* which has an identity the playlist's tracks had after the first call.
C13_IdempotentResave ==
    last.op = "resave" =>
        /\ last.err = "ok"
        /\ Observable(db, last.data.id) = Observable(Before, last.data.id)
        /\ Cardinality(TracksOf(db, last.data.id))
              = Cardinality(TracksOf(Before, last.data.id))
        /\ {t.id : t \in TracksOf(db, last.data.id)}
              \cap {t.id : t \in TracksOf(Before, last.data.id)} = {}

\* A repeated update of two tracks, one backed by a File and one by a
\* Youtube entry.
C13_Witness ==
    /\ last.op = "resave" /\ last.err = "ok"
    /\ Cardinality(TracksOf(db, last.data.id)) = 2
    /\ \E t \in TracksOf(db, last.data.id) : t.file # None
    /\ \E t \in TracksOf(db, last.data.id) : t.youtube # None


\* C18: after a successful save none of the Track rows the playlist had
\* before the call is left, and no Track identity present before the call
\* belongs to the playlist, also when the track list is unchanged; and no
\* call changes a Track row in place: a row that keeps its identity keeps
\* all its fields.
C18_FreshTracks ==
    /\ (last.op \in {"create", "update", "resave"} /\ last.err = "ok") =>
          /\ TracksOf(Before, last.val.id) \cap db.tracks = {}
          /\ {t.id : t \in TracksOf(db, last.val.id)}
                \cap {t.id : t \in Before.tracks} = {}
    /\ last.op # "none" =>
          \A t \in db.tracks :
              t.id \in {b.id : b \in Before.tracks} => t \in Before.tracks

\* A successful update that submits the track list the playlist already
\* has, while another playlist holds tracks too.
C18_Witness ==
    /\ last.op = "update" /\ last.err = "ok"
    /\ TracksOf(Before, last.data.id) # {}
    /\ Observable(db, last.data.id) = Observable(Before, last.data.id)
    /\ \E t \in Before.tracks : t.playlist # last.data.id


\* The identity of the playlist the answered save targets: the descriptor's
\* on the update path, the next one of the sequence on the create path.
Target == IF last.op = "create" THEN Before.seq.playlist ELSE last.data.id

\* C19: a save targeting playlist P, successful or failed, leaves the
\* Playlist row and the Track rows of every other playlist as they were,
\* and every PlaybackPosition row whose key is not (P, submitted owner);
\* no Youtube entry is deleted, referenced or not.
C19_Frame ==
    last.op \in {"create", "update", "resave"} =>
        /\ {q \in db.playlists : q.id # Target}
              = {q \in Before.playlists : q.id # Target}
        /\ {t \in db.tracks : t.playlist # Target}
              = {t \in Before.tracks : t.playlist # Target}
        /\ {r \in db.positions :
                  r.playlist # Target \/ r.user_id # last.data.owner.id}
              = {r \in Before.positions :
                  r.playlist # Target \/ r.user_id # last.data.owner.id}
        /\ Before.youtubes \subseteq db.youtubes

\* A successful update that takes the last reference to a Youtube entry
\* away, while another playlist has tracks and a position of its own.
C19_Witness ==
    /\ last.op = "update" /\ last.err = "ok"
    /\ \E y \in Before.youtubes :
          /\ \E t \in TracksOf(Before, Target) : t.youtube = Some(y.id)
          /\ \A t \in db.tracks : t.youtube # Some(y.id)
    /\ \E t \in Before.tracks : t.playlist # Target
    /\ \E r \in Before.positions : r.playlist # Target


\* C20: update() takes its target from the descriptor's identity, not from
\* the instance passed in: a successful update returns the row of that
\* identity and leaves a different instance's row and tracks alone; when no
\* Playlist has that identity, the -1 of a descriptor without one included,
\* the call fails with a not-found error, no Playlist row is created and
\* the Track and PlaybackPosition rows are unchanged.
C20_MissingPlaylist ==
    last.op = "update" =>
        /\ last.data.id \notin {pl.id : pl \in Before.playlists} =>
              /\ last.err \in {"Playlist.DoesNotExist", "User.DoesNotExist"}
              /\ db.playlists = Before.playlists
              /\ db.tracks = Before.tracks
              /\ db.positions = Before.positions
        /\ last.err = "ok" =>
              /\ last.val.id = last.data.id
              /\ last.instance[1].id # last.data.id =>
                    /\ last.instance[1] \in db.playlists
                    /\ TracksOf(db, last.instance[1].id)
                          = TracksOf(Before, last.instance[1].id)

\* An update whose descriptor carries the -1 identity, by an existing user,
\* on an instance that exists and has tracks and a position.
C20_Witness ==
    /\ last.op = "update"
    /\ last.data.id = NewId
    /\ last.err = "Playlist.DoesNotExist"
    /\ TracksOf(Before, last.instance[1].id) # {}
    /\ \E r \in Before.positions : r.playlist = last.instance[1].id


\* The calls in flight or ended on the workers that are saves.
Saves == {p \in Procs : tx[p].op \in {"create", "update"}}

\* C16 (as claimed): in every execution of a save the playlist row is written
\* first, then the track list is replaced, and only then is the playback
\* position written: the position write never precedes the track
\* replacement.
C16_StepOrder ==
    \A p \in Saves :
        \A i \in 1..Len(tx[p].log) :
            tx[p].log[i] = "position" =>
                \E j \in 1..(i - 1) : tx[p].log[j] = "tracks"

\* C16 (amended): in every execution of a save the playlist row is written
\* first, then the playback position, and only then is the track list
\* replaced; a save that reaches its commit has done the three in that
\* order.
C16_StepOrderAmended ==
    \A p \in Saves :
        /\ \E n \in 0..3 : tx[p].log = SubSeq(<<"playlist", "position", "tracks">>, 1, n)
        /\ (tx[p].pc = "commit" \/ (tx[p].pc = "done" /\ tx[p].err = "ok"))
              => tx[p].log = <<"playlist", "position", "tracks">>

\* A create and an update, both with a track, have both reached their
\* commit.
C16_Witness ==
    /\ \E p \in Procs : tx[p].op = "create" /\ tx[p].pc = "done" /\ tx[p].err = "ok"
                        /\ tx[p].data.tracks # <<>>
    /\ \E p \in Procs : tx[p].op = "update" /\ tx[p].pc = "commit"
                        /\ tx[p].data.tracks # <<>>


\* What a reader of committed data sees of the playlist with identity id in
\* database d: its name, flag and owner, its tracks (order, type, backing
\* File or external identifier) and the positions kept for it.
Snapshot(d, id) ==
    [playlist |-> {[name |-> pl.name, public |-> pl.public, owner |-> pl.owner]
                      : pl \in {q \in d.playlists : q.id = id}},
     tracks |-> {[order |-> o.order, type |-> o.type, file |-> o.file,
                  video_id |-> o.video_id] : o \in Observable(d, id)},
     ntracks |-> Cardinality(TracksOf(d, id)),
     positions |-> {[user_id |-> r.user_id,
                     active_track_idx |-> r.active_track_idx,
                     playback_position |-> r.playback_position]
                       : r \in {q \in d.positions : q.playlist = id}}]

\* The call of worker p run alone and to its end on the committed database.
Sequential(p) ==
    IF tx[p].op = "update" THEN update(db, tx[p].instance[1], tx[p].data)
    ELSE IF tx[p].op = "create" THEN create(db, tx[p].data)
    ELSE set_playback_position(db, tx[p].playlist,
                               tx[p].data.get_active_track_idx,
                               tx[p].data.get_playback_position, tx[p].user)

\* C14: a reader of committed data never sees an intermediate state: every
\* step either leaves what is visible of a playlist (row, track list,
\* positions) as it was, or is the commit of one call and replaces it by
\* the complete result of that call, the one the call gives when run alone
\* on the committed state.
C14_NoIntermediateState ==
    [][\A id \in {pl.id : pl \in db'.playlists} :
          \/ Snapshot(db', id) = Snapshot(db, id)
          \/ \E p \in Procs :
                /\ tx[p].pc = "commit" /\ tx'[p].pc = "done"
                /\ Sequential(p).err = "ok"
                /\ Snapshot(db', id) =
                      Snapshot(Sequential(p).db,
                               IF tx[p].op = "create" THEN Sequential(p).val.id
                               ELSE id)]_vars

\* An update has renamed the playlist, written its position and deleted its
\* tracks and has not committed: the committed playlist still has its name
\* and its tracks.
C14_Witness ==
    \E p \in Procs :
        /\ tx[p].op = "update"
        /\ tx[p].pc = "file"
        /\ tx[p].w.put.playlists # {}
        /\ tx[p].w.put.positions # {}
        /\ tx[p].w.gone.tracks # {}
        /\ TracksOf(db, tx[p].data.id) # {}
        /\ \E pl \in db.playlists : pl.id = tx[p].data.id /\ pl.name # tx[p].data.name


\* The values of the committed position rows of the playlist and user of
\* worker p's call.
PositionOf(p) ==
    {[active_track_idx |-> r.active_track_idx,
      playback_position |-> r.playback_position]
        : r \in {q \in db.positions : /\ q.playlist = tx[p].playlist.id
                                      /\ q.user_id = tx[p].user.id}}

\* C15: when two concurrent calls have upserted the position of one
\* playlist and both have committed, then for different users each pair has
\* one row, holding the values of its own call, and for the same user the
\* pair has one row, holding the values of the call that committed last.
C15_PositionIndependence ==
    (/\ Len(commits) = 2
     /\ tx[commits[1]].playlist.id = tx[commits[2]].playlist.id)
        => /\ PositionOf(commits[2]) = {Passed(tx[commits[2]])}
           /\ Cardinality({r \in db.positions :
                              /\ r.playlist = tx[commits[2]].playlist.id
                              /\ r.user_id = tx[commits[2]].user.id}) = 1
           /\ tx[commits[1]].user.id # tx[commits[2]].user.id =>
                 /\ PositionOf(commits[1]) = {Passed(tx[commits[1]])}
                 /\ Cardinality({r \in db.positions :
                                    /\ r.playlist = tx[commits[1]].playlist.id
                                    /\ r.user_id = tx[commits[1]].user.id}) = 1

\* Two direct calls for one playlist and different users, with different
\* values, have both committed.
C15_Witness ==
    /\ Len(commits) = 2
    /\ tx[commits[1]].op = "set_playback_position"
    /\ tx[commits[2]].op = "set_playback_position"
    /\ tx[commits[1]].playlist.id = tx[commits[2]].playlist.id
    /\ tx[commits[1]].user.id # tx[commits[2]].user.id
    /\ Passed(tx[commits[1]]) # Passed(tx[commits[2]])
    /\ Cardinality(db.positions) = 2


\* The committed save at place i of commits is the last one on its playlist.
LastOnPlaylist(i) ==
    \A j \in (i + 1)..Len(commits) :
        ~ (/\ tx[commits[j]].op \in {"create", "update"}
           /\ tx[commits[j]].playlist.id = tx[commits[i]].playlist.id)

\* C17: when two concurrent saves have ended, there is one Youtube entry
\* per external identifier, also for an identifier that had no entry when
\* both began and that both name; every committed youtube-backed track
\* references an entry that is there, and the tracks of each playlist
\* reference the entry of the identifier its last committed save named.
C17_ConcurrentExternalEntry ==
    (\A p \in Procs : tx[p].pc = "done" /\ tx[p].op \in {"create", "update"}) =>
        /\ \A y1, y2 \in db.youtubes : y1.video_id = y2.video_id => y1 = y2
        /\ \A t \in db.tracks :
              t.youtube # None => \E y \in db.youtubes : y.id = t.youtube[1]
        /\ \A i \in 1..Len(commits) :
              LastOnPlaylist(i) =>
                  LET data == tx[commits[i]].data
                      rows == TracksOf(db, tx[commits[i]].playlist.id)
                  IN  \A k \in 1..Len(data.tracks) :
                          \E t \in rows :
                              t.order = k - 1 /\ Backs(db, t, data.tracks[k])

\* Two concurrent creates that name the same identifier have both
\* committed; both drew an identity for an entry and one entry is there.
C17_Witness ==
    /\ Len(commits) = 2
    /\ \A p \in Procs :
          /\ tx[p].op = "create"
          /\ tx[p].data.tracks[1].youtube # None
    /\ tx[1].data.tracks[1].youtube[1].title # tx[2].data.tracks[1].youtube[1].title
    /\ db.seq.youtube = 3
    /\ Cardinality(db.youtubes) = 1
    /\ Cardinality({t \in db.tracks : t.youtube # None}) = 2

====
